---- MODULE Spec2Model ----
(***************************************************************************)
(* Model of ArticlesService (articles.service.ts): the cache-aside access  *)
(* layer over the article repository.  Every request is an async handler;  *)
(* each await on the cache or the repository is one atomic step, followed  *)
(* by the synchronous code up to the next await.                           *)
(***************************************************************************)
EXTENDS Integers, Sequences, FiniteSets, TLC

(***************************************************************************)
(* Bounds of the model                                                     *)
(***************************************************************************)
NumProcs == 2            \* concurrent request handlers
MaxArticles == 1         \* articles ever created (ids are never reused)
TickMs == 300000         \* granularity of the passage of time, in ms
MaxProps == 2            \* properties of a query in the key derivation
MaxRows == 25            \* rows of the table when only lists are requested

(***************************************************************************)
(* Program constants                                                       *)
(***************************************************************************)
TTL == 300000            \* cacheManager.set(..., 300000)
DefaultPage == 1         \* const { page = 1, ... } = query
DefaultLimit == 10       \* const { ..., limit = 10, ... } = query

Procs == 1..NumProcs
Ids == 1..MaxArticles
Users == {"u1", "u2"}      \* principals that send update and remove
Authors == {"u1"}          \* principals that send create

\* Texts are sequences of characters, so that ILIKE can be computed.
T0 == <<"a">>
T1 == <<"B">>
D0 == <<"x">>
D1 == <<"y">>

\* A JavaScript property value: <<v>> is the value v, <<>> is undefined.
Def(v) == <<v>>
Undefined == <<>>

NoRow == [none |-> "row"]
NoEntry == [none |-> "entry"]
NoResult == [none |-> "result"]
NoReq == [op |-> "none"]

UpdatableFields == {"title", "description", "publicationDate"}

\* CreateArticleDto values the model submits.
CreateDtos == { [title |-> T0, description |-> D0, publicationDate |-> 1] }

\* PATCH bodies the model submits: the own properties of the object, each
\* holding a value or undefined.  The last one names a property that
\* UpdateArticleDto does not declare.
UpdateDtos ==
  { <<>>,
    [title |-> Undefined],
    [title |-> Def(T1)],
    [title |-> Undefined, description |-> Def(D1)],
    [authorId |-> Def("u2")] }

\* QueryArticlesDto values the model submits to findAll: the own properties
\* in insertion order.
\* A property holds a number (page, limit, fromDate, toDate), a string
\* (authorId) or a text (search); all three undefined is the value undefined.
NumProp(k, n) == [k |-> k, num |-> Def(n), str |-> Undefined, txt |-> Undefined]
StrProp(k, s) == [k |-> k, num |-> Undefined, str |-> Def(s), txt |-> Undefined]
TxtProp(k, t) == [k |-> k, num |-> Undefined, str |-> Undefined, txt |-> Def(t)]
UndefProp(k) == [k |-> k, num |-> Undefined, str |-> Undefined, txt |-> Undefined]
IsUndefined(prop) == prop.num = Undefined /\ prop.str = Undefined /\ prop.txt = Undefined

ListQueries == { << NumProp("page", 1), NumProp("limit", 10) >> }

\* Query properties and queries for the derivation of cache keys.
KeyProps ==
  { NumProp("page", 1), NumProp("page", 2),
    NumProp("limit", 10), NumProp("limit", 5),
    StrProp("authorId", "u1"), UndefProp("authorId"),
    NumProp("fromDate", 1), NumProp("toDate", 2),
    TxtProp("search", <<"a">>) }

KeyQueries ==
  UNION { { q \in [1..n -> KeyProps] : \A i, j \in 1..n : i # j => q[i].k # q[j].k }
          : n \in 0..MaxProps }

VARIABLES
  store,      \* articles table: id -> row or NoRow
  nextId,     \* next generated primary key
  cache,      \* cache manager: key -> [value, ttl] or NoEntry
  pc,         \* per handler: the await it is suspended at
  req,        \* per handler: the request it serves
  article,    \* per handler: local `article` / `savedArticle`
  loaded,     \* per handler: what the repository returned on a cache miss
  result,     \* per handler: the value the request returned
  outcome,    \* per handler: "ok" or the exception thrown
  trace,      \* per handler: the cache and repository calls of the request
  keyIn,      \* key derivation: the two queries under comparison
  keyOut,     \* key derivation: their cache keys
  createdBy,  \* history: id -> the principal whose create inserted the row
  sinceWrite, \* stopwatch, when running: ms since the last table write or
              \* completed mutation (capped); <<>> when it is not running
  held        \* history, when kept: id -> the rows the table has held for id;
              \* <<>> when it is not kept

vars == << store, nextId, cache, pc, req, article, loaded, result,
           outcome, trace, keyIn, keyOut, createdBy, sinceWrite, held >>

(***************************************************************************)
(* Cache manager and cache keys                                            *)
(***************************************************************************)
ArticleKey(id) == << "article", id >>

\* JSON.stringify(query): own properties in insertion order, properties
\* whose value is undefined are omitted.
RECURSIVE JsonStringify(_)
JsonStringify(q) ==
  IF q = <<>> THEN <<>>
  ELSE IF IsUndefined(Head(q)) THEN JsonStringify(Tail(q))
       ELSE << Head(q) >> \o JsonStringify(Tail(q))

\* Variant: the key is built from page and limit alone.
ListKey_PagingOnly(q) ==
  LET Paging(prop) == prop.k \in {"page", "limit"}
  IN << "articles", SelectSeq(JsonStringify(q), Paging) >>

ListKey(q) == << "articles", JsonStringify(q) >>

CacheKeys == { ArticleKey(id) : id \in Ids } \cup { ListKey(q) : q \in ListQueries }

\* cacheManager.get(key): the stored value, or NoEntry on a miss.
CacheGet(c, key) == IF c[key] # NoEntry THEN c[key].value ELSE NoEntry

\* Variant: the cached value is never used.
IsHit_Never(v) == FALSE

\* if (cachedArticle) / if (cachedResult)
IsHit(v) == v # NoEntry

\* cacheManager.set(key, value, ttl)
CacheSet(c, key, value, ttl) == [c EXCEPT ![key] = [value |-> value, ttl |-> ttl]]

\* cacheManager.del(key)
CacheDel(c, key) == [c EXCEPT ![key] = NoEntry]

\* Variant: the loaded value is not written to the cache.
Populate_Skip(c, key, value) == c

\* Variant: an entry that is already there is kept (first writer wins).
Populate_IfAbsent(c, key, value) ==
  IF c[key] # NoEntry THEN c ELSE CacheSet(c, key, value, TTL)

\* this.cacheManager.set(cacheKey, value, 300000) of findOne and findAll
Populate(c, key, value) == CacheSet(c, key, value, TTL)

\* Variant: the entry is left in the cache.
invalidateArticleCache_Noop(c, id) == c

\* Variant: the cached lists are flushed together with the entry.
invalidateArticleCache_FlushLists(c, id) ==
  [k \in DOMAIN c |-> IF k = ArticleKey(id) \/ k[1] = "articles" THEN NoEntry ELSE c[k]]

\* invalidateArticleCache(id)
invalidateArticleCache(c, id) == CacheDel(c, ArticleKey(id))

(***************************************************************************)
(* Repository                                                              *)
(***************************************************************************)
\* The entity object a handler holds: id and authorId, and the updatable
\* properties, each of which may have been assigned undefined.
ToEntity(row) ==
  [id |-> row.id, authorId |-> row.authorId,
   title |-> Def(row.title), description |-> Def(row.description),
   publicationDate |-> Def(row.publicationDate)]

\* Object.assign(article, updateArticleDto): copies the own properties
\* (the entity holds id and authorId as plain values).
ObjectAssign(ent, dto) ==
  [f \in DOMAIN ent |->
     IF f \in DOMAIN dto
     THEN IF f \in UpdatableFields THEN dto[f] ELSE dto[f][1]
     ELSE ent[f]]

\* Variant: properties the DTO does not declare are let through.
Whitelisted_Any(dto) == TRUE

\* ValidationPipe({ whitelist: true, forbidNonWhitelisted: true }) on the
\* PATCH body: a property that UpdateArticleDto does not declare is refused.
Whitelisted(dto) == DOMAIN dto \subseteq UpdatableFields

\* Variant: tests the presence of a property instead of its value.
HasFields_AnyProperty(dto) == DOMAIN dto # {}

\* Object.values(dto).some((value) => value !== undefined)
HasFields(dto) == \E f \in DOMAIN dto : dto[f] # Undefined

\* Variant: the ownership test is skipped.
IsAuthor_Anyone(a, userId) == TRUE

\* article.authorId !== userId is the rejection test of update and remove.
IsAuthor(a, userId) == a.authorId = userId

\* articlesRepository.save(entity) on an entity with a primary key: the
\* row is updated to the entity's defined columns when it exists, and
\* inserted otherwise; undefined properties are skipped, and an insert
\* without a NOT NULL column fails.
SaveRow(old, ent) ==
  [id |-> ent.id, authorId |-> ent.authorId,
   title |-> IF ent.title # Undefined THEN ent.title[1] ELSE old.title,
   description |-> IF ent.description # Undefined THEN ent.description[1] ELSE old.description,
   publicationDate |-> IF ent.publicationDate # Undefined THEN ent.publicationDate[1]
                       ELSE old.publicationDate]

CanSave(st, ent) ==
  st[ent.id] # NoRow \/ \A f \in UpdatableFields : ent[f] # Undefined

RepoSave(st, ent) == [st EXCEPT ![ent.id] = SaveRow(st[ent.id], ent)]

\* articlesRepository.remove(entity): DELETE by primary key.
RepoRemove(st, id) == [st EXCEPT ![id] = NoRow]

(***************************************************************************)
(* findAll: effective filters, WHERE clause, ordering and pagination       *)
(***************************************************************************)
QHas(q, k) == \E i \in 1..Len(q) : q[i].k = k
QProp(q, k) == IF QHas(q, k) THEN q[CHOOSE i \in 1..Len(q) : q[i].k = k] ELSE UndefProp(k)

\* const { page = 1, limit = 10, authorId, fromDate, toDate, search } = query
Destructure(q) ==
  [page |-> IF QProp(q, "page").num # Undefined THEN QProp(q, "page").num[1] ELSE DefaultPage,
   limit |-> IF QProp(q, "limit").num # Undefined THEN QProp(q, "limit").num[1] ELSE DefaultLimit,
   authorId |-> QProp(q, "authorId").str,
   fromDate |-> QProp(q, "fromDate").num,
   toDate |-> QProp(q, "toDate").num,
   search |-> QProp(q, "search").txt]

\* JavaScript truthiness of an optional string / optional text
TruthyString(o) == o # Undefined /\ o[1] # ""
TruthyText(o) == o # Undefined /\ o[1] # <<>>
\* a supplied date is a non-empty date string
TruthyDate(o) == o # Undefined

Lower(c) == CASE c = "A" -> "a" [] c = "B" -> "b" [] c = "X" -> "x" [] OTHER -> c

\* SQL LIKE on lower-cased operands (ILIKE): % matches any run of
\* characters, _ matches one character.
RECURSIVE Like(_, _)
Like(s, pat) ==
  IF pat = <<>> THEN s = <<>>
  ELSE IF Head(pat) = "%"
       THEN Like(s, Tail(pat)) \/ (s # <<>> /\ Like(Tail(s), pat))
       ELSE /\ s # <<>>
            /\ (Head(pat) = "_" \/ Lower(Head(pat)) = Lower(Head(s)))
            /\ Like(Tail(s), Tail(pat))

\* article.title ILIKE :search with search = `%${search}%`
ILike(text, search) == Like(text, <<"%">> \o search \o <<"%">>)

WhereClause(row, f) ==
  /\ TruthyString(f.authorId) => row.authorId = f.authorId[1]
  /\ IF TruthyDate(f.fromDate) /\ TruthyDate(f.toDate)
     THEN f.fromDate[1] <= row.publicationDate /\ row.publicationDate <= f.toDate[1]
     ELSE IF TruthyDate(f.fromDate) THEN row.publicationDate >= f.fromDate[1]
     ELSE IF TruthyDate(f.toDate) THEN row.publicationDate <= f.toDate[1]
     ELSE TRUE
  /\ TruthyText(f.search) =>
       ILike(row.title, f.search[1]) \/ ILike(row.description, f.search[1])

Matching(st, f) ==
  { st[id] : id \in { i \in DOMAIN st : st[i] # NoRow /\ WhereClause(st[i], f) } }

\* ORDER BY publicationDate DESC: every order of the rows that is
\* non-increasing in publicationDate (rows with equal dates in any order).
RECURSIVE OrderByDateDesc(_)
OrderByDateDesc(rows) ==
  IF rows = {} THEN { <<>> }
  ELSE UNION { { << r >> \o s : s \in OrderByDateDesc(rows \ {r}) } :
               r \in { x \in rows :
                         \A y \in rows : x.publicationDate >= y.publicationDate } }

\* Variant: the offset is page * limit.
SkipTake_PageTimesLimit(s, page, limit) ==
  LET skip == page * limit
      last == IF skip + limit < Len(s) THEN skip + limit ELSE Len(s)
  IN IF skip >= Len(s) THEN <<>> ELSE SubSeq(s, skip + 1, last)

\* .skip((page - 1) * limit).take(limit)
SkipTake(s, page, limit) ==
  LET skip == (page - 1) * limit
      last == IF skip + limit < Len(s) THEN skip + limit ELSE Len(s)
  IN IF skip >= Len(s) THEN <<>> ELSE SubSeq(s, skip + 1, last)

\* Math.ceil(total / limit)
CeilDiv(total, limit) == (total + limit - 1) \div limit

PageResult(data, total, f) ==
  [data |-> data, total |-> total, page |-> f.page, limit |-> f.limit,
   totalPages |-> CeilDiv(total, f.limit)]

\* queryBuilder.getManyAndCount() followed by the construction of `result`
QueryResults(st, q) ==
  LET f == Destructure(q)
      rows == Matching(st, f)
  IN { PageResult(SkipTake(s, f.page, f.limit), Cardinality(rows), f) :
         s \in OrderByDateDesc(rows) }

(***************************************************************************)
(* Handler bookkeeping                                                     *)
(***************************************************************************)
Ev(name, key) == [ev |-> name, key |-> key]
RepoEv(name, id) == [ev |-> name, id |-> id]
Log(p, e) == trace' = [trace EXCEPT ![p] = Append(@, e)]

\* The handler returns or throws: its locals are gone.
Finish(p, oc, res) ==
  /\ pc' = [pc EXCEPT ![p] = "done"]
  /\ outcome' = [outcome EXCEPT ![p] = oc]
  /\ result' = [result EXCEPT ![p] = res]
  /\ article' = [article EXCEPT ![p] = NoRow]
  /\ loaded' = [loaded EXCEPT ![p] = NoResult]

\* The handler suspends at its next await with these locals.
Goto(p, label, art, ld) ==
  /\ pc' = [pc EXCEPT ![p] = label]
  /\ article' = [article EXCEPT ![p] = art]
  /\ loaded' = [loaded EXCEPT ![p] = ld]
  /\ UNCHANGED << outcome, result >>

\* A cache call rejects: the handler has no try/catch, the request fails.
CacheRejects(p, call) ==
  /\ Finish(p, "CacheError", NoResult)
  /\ Log(p, Ev(call, req[p].key))

\* The stopwatch restarts: the table was written or a mutation returned.
Restart == sinceWrite' = IF sinceWrite = Undefined THEN Undefined ELSE Def(0)

\* A table write adds the rows it leaves in the table to the history.
Record ==
  held' = IF held = Undefined THEN Undefined
          ELSE [id \in Ids |-> IF store'[id] # NoRow
                               THEN held[id] \cup { store'[id] } ELSE held[id]]

Init ==
  /\ store = [id \in Ids |-> NoRow]
  /\ nextId = 1
  /\ cache = [k \in CacheKeys |-> NoEntry]
  /\ pc = [p \in Procs |-> "idle"]
  /\ req = [p \in Procs |-> NoReq]
  /\ article = [p \in Procs |-> NoRow]
  /\ loaded = [p \in Procs |-> NoResult]
  /\ result = [p \in Procs |-> NoResult]
  /\ outcome = [p \in Procs |-> "none"]
  /\ trace = [p \in Procs |-> <<>>]
  /\ keyIn = <<>>
  /\ keyOut = <<>>
  /\ createdBy = [id \in Ids |-> ""]
  /\ sinceWrite = Undefined
  /\ held = Undefined

(***************************************************************************)
(* Requests arrive: the synchronous prefix of each handler                 *)
(***************************************************************************)
Free(p) == pc[p] \in {"idle", "done"}

Start(p, r) ==
  /\ req' = [req EXCEPT ![p] = r]
  /\ trace' = [trace EXCEPT ![p] = <<>>]

Await(p, label) ==
  /\ pc' = [pc EXCEPT ![p] = label]
  /\ outcome' = [outcome EXCEPT ![p] = "none"]
  /\ result' = [result EXCEPT ![p] = NoResult]
  /\ article' = [article EXCEPT ![p] = NoRow]
  /\ loaded' = [loaded EXCEPT ![p] = NoResult]

\* findOne(id) called by the controller
GetBegin(p, id) ==
  /\ Free(p)
  /\ Start(p, [op |-> "get", id |-> id, key |-> ArticleKey(id)])
  /\ Await(p, "cacheGet")
  /\ UNCHANGED << store, nextId, cache, keyIn, keyOut, createdBy, sinceWrite, held >>

\* PATCH /articles/:id: the validation pipe, then
\* update(id, updateArticleDto, userId) up to its first await
UpdateBegin(p, id, dto, userId) ==
  /\ Free(p)
  /\ Start(p, [op |-> "update", id |-> id, dto |-> dto, userId |-> userId,
               key |-> ArticleKey(id)])
  /\ IF ~Whitelisted(dto) \/ ~HasFields(dto)
     THEN Finish(p, "BadRequestException", NoResult)
     ELSE Await(p, "cacheGet")
  /\ UNCHANGED << store, nextId, cache, keyIn, keyOut, createdBy, sinceWrite, held >>

\* remove(id, userId) up to its first await
RemoveBegin(p, id, userId) ==
  /\ Free(p)
  /\ Start(p, [op |-> "remove", id |-> id, userId |-> userId,
               key |-> ArticleKey(id)])
  /\ Await(p, "cacheGet")
  /\ UNCHANGED << store, nextId, cache, keyIn, keyOut, createdBy, sinceWrite, held >>

\* create(createArticleDto, userId) up to its first await
CreateBegin(p, dto, userId) ==
  /\ Free(p)
  /\ nextId + Cardinality({ q \in Procs : pc[q] = "createSave" }) <= MaxArticles
  /\ Start(p, [op |-> "create", dto |-> dto, userId |-> userId])
  /\ Await(p, "createSave")
  /\ UNCHANGED << store, nextId, cache, keyIn, keyOut, createdBy, sinceWrite, held >>

\* findAll(query) up to its first await
FindAllBegin(p, q) ==
  /\ Free(p)
  /\ Start(p, [op |-> "list", query |-> q, key |-> ListKey(q)])
  /\ Await(p, "listGet")
  /\ UNCHANGED << store, nextId, cache, keyIn, keyOut, createdBy, sinceWrite, held >>

(***************************************************************************)
(* findOne, and what its caller does with the article                      *)
(***************************************************************************)
\* The code that runs when findOne(id) has returned `a` to its caller.
Resolved(p, a) ==
  CASE req[p].op = "get" -> Finish(p, "ok", a)
    [] req[p].op = "update" ->
         IF ~IsAuthor(a, req[p].userId)
         THEN Finish(p, "ForbiddenException", NoResult)
         ELSE Goto(p, "save", ObjectAssign(ToEntity(a), req[p].dto), NoResult)
    [] req[p].op = "remove" ->
         IF ~IsAuthor(a, req[p].userId)
         THEN Finish(p, "ForbiddenException", NoResult)
         ELSE Goto(p, "remove", a, NoResult)

\* await this.cacheManager.get(cacheKey) in findOne
FindOneCacheGet(p) ==
  /\ pc[p] = "cacheGet"
  /\ \/ CacheRejects(p, "get-error")
     \/ /\ IsHit(CacheGet(cache, req[p].key))
        /\ Log(p, Ev("get-hit", req[p].key))
        /\ Resolved(p, CacheGet(cache, req[p].key))
     \/ /\ ~IsHit(CacheGet(cache, req[p].key))
        /\ Log(p, Ev("get-miss", req[p].key))
        /\ Goto(p, "find", NoRow, NoResult)
  /\ UNCHANGED << store, nextId, cache, req, keyIn, keyOut, createdBy, sinceWrite, held >>

\* Variant: a missing article is cached like a found one.
FindOneLoad_NegativeCache(p) ==
  /\ pc[p] = "find"
  /\ Log(p, RepoEv("find", req[p].id))
  /\ IF store[req[p].id] = NoRow /\ req[p].op # "get"
     THEN Finish(p, "NotFoundException", NoResult)
     ELSE Goto(p, "cacheSet", NoRow, store[req[p].id])
  /\ UNCHANGED << store, nextId, cache, req, keyIn, keyOut, createdBy, sinceWrite, held >>

\* Variant: update and remove of a missing article are refused as not owned.
FindOneLoad_MissingIsForbidden(p) ==
  /\ pc[p] = "find"
  /\ Log(p, RepoEv("find", req[p].id))
  /\ IF store[req[p].id] = NoRow
     THEN Finish(p, IF req[p].op = "get" THEN "NotFoundException"
                    ELSE "ForbiddenException", NoResult)
     ELSE Goto(p, "cacheSet", NoRow, store[req[p].id])
  /\ UNCHANGED << store, nextId, cache, req, keyIn, keyOut, createdBy, sinceWrite, held >>

\* await this.articlesRepository.findOne({ where: { id } }) in findOne
FindOneLoad(p) ==
  /\ pc[p] = "find"
  /\ Log(p, RepoEv("find", req[p].id))
  /\ IF store[req[p].id] = NoRow
     THEN Finish(p, "NotFoundException", NoResult)
     ELSE Goto(p, "cacheSet", NoRow, store[req[p].id])
  /\ UNCHANGED << store, nextId, cache, req, keyIn, keyOut, createdBy, sinceWrite, held >>

\* Variant: remove deletes the row as soon as findOne has it, before the
\* ownership check.
FindOneCacheSet_DeleteBeforeCheck(p) ==
  /\ pc[p] = "cacheSet"
  /\ \/ /\ CacheRejects(p, "set-error")
        /\ UNCHANGED << cache, store >>
     \/ /\ cache' = Populate(cache, req[p].key, loaded[p])
        /\ Log(p, [ev |-> "set", key |-> req[p].key, value |-> loaded[p], ttl |-> TTL])
        /\ Resolved(p, loaded[p])
        /\ store' = IF req[p].op = "remove" THEN RepoRemove(store, req[p].id)
                    ELSE store
  /\ UNCHANGED << nextId, req, keyIn, keyOut, createdBy, sinceWrite, held >>

\* await this.cacheManager.set(cacheKey, article, 300000) in findOne
FindOneCacheSet(p) ==
  /\ pc[p] = "cacheSet"
  /\ \/ /\ CacheRejects(p, "set-error")
        /\ UNCHANGED cache
     \/ /\ cache' = Populate(cache, req[p].key, loaded[p])
        /\ Log(p, [ev |-> "set", key |-> req[p].key, value |-> loaded[p], ttl |-> TTL])
        /\ Resolved(p, loaded[p])
  /\ UNCHANGED << store, nextId, req, keyIn, keyOut, createdBy, sinceWrite, held >>

(***************************************************************************)
(* update and remove after the ownership check                             *)
(***************************************************************************)
\* Variant: save is not awaited, update goes on before the row is written.
UpdateSave_NotAwaited(p) ==
  /\ pc[p] = "save"
  /\ Log(p, RepoEv("save", req[p].id))
  /\ Goto(p, "del", article[p], NoResult)
  /\ Restart
  /\ UNCHANGED << store, nextId, cache, req, keyIn, keyOut, createdBy, held >>

\* await this.articlesRepository.save(article) in update
UpdateSave(p) ==
  /\ pc[p] = "save"
  /\ Log(p, RepoEv("save", req[p].id))
  /\ IF CanSave(store, article[p])
     THEN /\ store' = RepoSave(store, article[p])
          /\ Goto(p, "del", article[p], NoResult)
     ELSE /\ Finish(p, "QueryFailedError", NoResult)
          /\ UNCHANGED store
  /\ Restart
  /\ Record
  /\ UNCHANGED << nextId, cache, req, keyIn, keyOut, createdBy >>

\* await this.articlesRepository.remove(article) in remove
RemoveDelete(p) ==
  /\ pc[p] = "remove"
  /\ Log(p, RepoEv("remove", req[p].id))
  /\ store' = RepoRemove(store, article[p].id)
  /\ Goto(p, "del", article[p], NoResult)
  /\ Restart
  /\ Record
  /\ UNCHANGED << nextId, cache, req, keyIn, keyOut, createdBy >>

\* await this.invalidateArticleCache(id), then the return of update/remove
Invalidate(p) ==
  /\ pc[p] = "del"
  /\ \/ /\ CacheRejects(p, "del-error")
        /\ UNCHANGED cache
     \/ /\ cache' = invalidateArticleCache(cache, req[p].id)
        /\ Log(p, Ev("del", ArticleKey(req[p].id)))
        /\ Finish(p, "ok", IF req[p].op = "update" THEN article[p] ELSE NoResult)
  /\ Restart
  /\ UNCHANGED << store, nextId, req, keyIn, keyOut, createdBy, held >>

(***************************************************************************)
(* create                                                                  *)
(***************************************************************************)
\* Variant: the description column is filled from the title.
NewRow_DescriptionFromTitle(id, dto, userId) ==
  [id |-> id, authorId |-> userId, title |-> dto.title,
   description |-> dto.title, publicationDate |-> dto.publicationDate]

\* The row INSERTed for articlesRepository.create({...dto, authorId: userId})
NewRow(id, dto, userId) ==
  [id |-> id, authorId |-> userId, title |-> dto.title,
   description |-> dto.description, publicationDate |-> dto.publicationDate]

\* await this.articlesRepository.save(article) in create
CreateSave(p) ==
  /\ pc[p] = "createSave"
  /\ nextId <= MaxArticles
  /\ store' = [store EXCEPT ![nextId] = NewRow(nextId, req[p].dto, req[p].userId)]
  /\ nextId' = nextId + 1
  /\ Log(p, RepoEv("insert", nextId))
  /\ Goto(p, "createFind", NewRow(nextId, req[p].dto, req[p].userId), NoResult)
  /\ createdBy' = [createdBy EXCEPT ![nextId] = req[p].userId]
  /\ Restart
  /\ Record
  /\ UNCHANGED << cache, req, keyIn, keyOut >>

\* await articlesRepository.findOne({ where: { id: savedArticle.id } })
CreateFind(p) ==
  /\ pc[p] = "createFind"
  /\ Log(p, RepoEv("find", article[p].id))
  /\ IF store[article[p].id] = NoRow
     THEN Finish(p, "NotFoundException", NoResult)
     ELSE Finish(p, "ok", store[article[p].id])
  /\ Restart
  /\ UNCHANGED << store, nextId, cache, req, keyIn, keyOut, createdBy, held >>

(***************************************************************************)
(* findAll                                                                 *)
(***************************************************************************)
\* await this.cacheManager.get(cacheKey) in findAll
FindAllCacheGet(p) ==
  /\ pc[p] = "listGet"
  /\ \/ CacheRejects(p, "get-error")
     \/ /\ IsHit(CacheGet(cache, req[p].key))
        /\ Log(p, Ev("get-hit", req[p].key))
        /\ Finish(p, "ok", CacheGet(cache, req[p].key))
     \/ /\ ~IsHit(CacheGet(cache, req[p].key))
        /\ Log(p, Ev("get-miss", req[p].key))
        /\ Goto(p, "listQuery", NoRow, NoResult)
  /\ UNCHANGED << store, nextId, cache, req, keyIn, keyOut, createdBy, sinceWrite, held >>

\* await queryBuilder.getManyAndCount() and the construction of `result`
FindAllQuery(p) ==
  /\ pc[p] = "listQuery"
  /\ Log(p, Ev("query", req[p].key))
  /\ \E r \in QueryResults(store, req[p].query) : Goto(p, "listSet", NoRow, r)
  /\ UNCHANGED << store, nextId, cache, req, keyIn, keyOut, createdBy, sinceWrite, held >>

\* await this.cacheManager.set(cacheKey, result, 300000) and return result
FindAllCacheSet(p) ==
  /\ pc[p] = "listSet"
  /\ \/ /\ CacheRejects(p, "set-error")
        /\ UNCHANGED cache
     \/ /\ cache' = Populate(cache, req[p].key, loaded[p])
        /\ Log(p, [ev |-> "set", key |-> req[p].key, value |-> loaded[p], ttl |-> TTL])
        /\ Finish(p, "ok", loaded[p])
  /\ UNCHANGED << store, nextId, req, keyIn, keyOut, createdBy, sinceWrite, held >>

(***************************************************************************)
(* Environment: time passes                                                *)
(***************************************************************************)
\* The stopwatch stops counting at SinceCap.
SinceCap == 2 * TickMs

\* TickMs elapse: every entry ages, entries whose TTL has run out are gone.
Tick ==
  /\ \/ \E k \in DOMAIN cache : cache[k] # NoEntry
     \/ sinceWrite # Undefined /\ sinceWrite[1] < SinceCap
  /\ sinceWrite' = IF sinceWrite = Undefined THEN Undefined
                   ELSE IF sinceWrite[1] + TickMs >= SinceCap THEN Def(SinceCap)
                   ELSE Def(sinceWrite[1] + TickMs)
  /\ cache' = [k \in DOMAIN cache |->
                 IF cache[k] = NoEntry THEN NoEntry
                 ELSE IF cache[k].ttl - TickMs <= 0 THEN NoEntry
                 ELSE [cache[k] EXCEPT !.ttl = @ - TickMs]]
  /\ UNCHANGED << store, nextId, pc, req, article, loaded, result,
                  outcome, trace, keyIn, keyOut, createdBy, held >>

Next ==
  \/ \E p \in Procs, id \in Ids : GetBegin(p, id)
  \/ \E p \in Procs, id \in Ids, dto \in UpdateDtos, u \in Users : UpdateBegin(p, id, dto, u)
  \/ \E p \in Procs, id \in Ids, u \in Users : RemoveBegin(p, id, u)
  \/ \E p \in Procs, dto \in CreateDtos, u \in Authors : CreateBegin(p, dto, u)
  \/ \E p \in Procs, q \in ListQueries : FindAllBegin(p, q)
  \/ \E p \in Procs : FindOneCacheGet(p)
  \/ \E p \in Procs : FindOneLoad(p)
  \/ \E p \in Procs : FindOneCacheSet(p)
  \/ \E p \in Procs : UpdateSave(p)
  \/ \E p \in Procs : RemoveDelete(p)
  \/ \E p \in Procs : Invalidate(p)
  \/ \E p \in Procs : CreateSave(p)
  \/ \E p \in Procs : CreateFind(p)
  \/ \E p \in Procs : FindAllCacheGet(p)
  \/ \E p \in Procs : FindAllQuery(p)
  \/ \E p \in Procs : FindAllCacheSet(p)
  \/ Tick

Spec == Init /\ [][Next]_vars

\* The single-article path alone: findAll reads the table and writes only
\* articles:{...} keys, which no other handler reads.
NextEntity ==
  \/ \E p \in Procs, id \in Ids : GetBegin(p, id)
  \/ \E p \in Procs, id \in Ids, dto \in UpdateDtos, u \in Users : UpdateBegin(p, id, dto, u)
  \/ \E p \in Procs, id \in Ids, u \in Users : RemoveBegin(p, id, u)
  \/ \E p \in Procs, dto \in CreateDtos, u \in Authors : CreateBegin(p, dto, u)
  \/ \E p \in Procs : FindOneCacheGet(p)
  \/ \E p \in Procs : FindOneLoad(p)
  \/ \E p \in Procs : FindOneCacheSet(p)
  \/ \E p \in Procs : UpdateSave(p)
  \/ \E p \in Procs : RemoveDelete(p)
  \/ \E p \in Procs : Invalidate(p)
  \/ \E p \in Procs : CreateSave(p)
  \/ \E p \in Procs : CreateFind(p)
  \/ Tick

SpecEntity == Init /\ [][NextEntity]_vars

(***************************************************************************)
(* The single-article path with the history of the table kept              *)
(***************************************************************************)
InitHeld ==
  /\ store = [id \in Ids |-> NoRow]
  /\ nextId = 1
  /\ cache = [k \in CacheKeys |-> NoEntry]
  /\ pc = [p \in Procs |-> "idle"]
  /\ req = [p \in Procs |-> NoReq]
  /\ article = [p \in Procs |-> NoRow]
  /\ loaded = [p \in Procs |-> NoResult]
  /\ result = [p \in Procs |-> NoResult]
  /\ outcome = [p \in Procs |-> "none"]
  /\ trace = [p \in Procs |-> <<>>]
  /\ keyIn = <<>>
  /\ keyOut = <<>>
  /\ createdBy = [id \in Ids |-> ""]
  /\ sinceWrite = Undefined
  /\ held = [id \in Ids |-> {}]

SpecHeld == InitHeld /\ [][NextEntity]_vars

(***************************************************************************)
(* Requests one at a time: a request is taken up only when no handler is   *)
(* in flight.  The runs go as far as the first rejected cache delete.      *)
(***************************************************************************)
DelRejected(p) == trace[p] # <<>> /\ trace[p][Len(trace[p])].ev = "del-error"

Quiet == \A p \in Procs : Free(p) /\ ~DelRejected(p)

NextSeq ==
  \/ Quiet /\ \E p \in Procs, id \in Ids : GetBegin(p, id)
  \/ Quiet /\ \E p \in Procs, id \in Ids, dto \in UpdateDtos, u \in Users :
                UpdateBegin(p, id, dto, u)
  \/ Quiet /\ \E p \in Procs, id \in Ids, u \in Users : RemoveBegin(p, id, u)
  \/ Quiet /\ \E p \in Procs, dto \in CreateDtos, u \in Authors : CreateBegin(p, dto, u)
  \/ \E p \in Procs : FindOneCacheGet(p)
  \/ \E p \in Procs : FindOneLoad(p)
  \/ \E p \in Procs : FindOneCacheSet(p)
  \/ \E p \in Procs : UpdateSave(p)
  \/ \E p \in Procs : RemoveDelete(p)
  \/ \E p \in Procs : Invalidate(p)
  \/ \E p \in Procs : CreateSave(p)
  \/ \E p \in Procs : CreateFind(p)
  \/ Tick

SpecSeq == Init /\ [][NextSeq]_vars

(***************************************************************************)
(* Lists beside the author's mutations, with the time since the last write *)
(***************************************************************************)
\* The service has been up for long and nothing was written recently.
InitStale ==
  /\ store = [id \in Ids |-> NoRow]
  /\ nextId = 1
  /\ cache = [k \in CacheKeys |-> NoEntry]
  /\ pc = [p \in Procs |-> "idle"]
  /\ req = [p \in Procs |-> NoReq]
  /\ article = [p \in Procs |-> NoRow]
  /\ loaded = [p \in Procs |-> NoResult]
  /\ result = [p \in Procs |-> NoResult]
  /\ outcome = [p \in Procs |-> "none"]
  /\ trace = [p \in Procs |-> <<>>]
  /\ keyIn = <<>>
  /\ keyOut = <<>>
  /\ createdBy = [id \in Ids |-> ""]
  /\ sinceWrite = Def(SinceCap)
  /\ held = Undefined

NextStale ==
  \/ \E p \in Procs, dto \in CreateDtos, u \in Authors : CreateBegin(p, dto, u)
  \/ \E p \in Procs, id \in Ids, dto \in UpdateDtos, u \in Authors : UpdateBegin(p, id, dto, u)
  \/ \E p \in Procs, id \in Ids, u \in Authors : RemoveBegin(p, id, u)
  \/ \E p \in Procs, q \in ListQueries : FindAllBegin(p, q)
  \/ \E p \in Procs : CreateSave(p)
  \/ \E p \in Procs : CreateFind(p)
  \/ \E p \in Procs : FindOneCacheGet(p)
  \/ \E p \in Procs : FindOneLoad(p)
  \/ \E p \in Procs : FindOneCacheSet(p)
  \/ \E p \in Procs : UpdateSave(p)
  \/ \E p \in Procs : RemoveDelete(p)
  \/ \E p \in Procs : Invalidate(p)
  \/ \E p \in Procs : FindAllCacheGet(p)
  \/ \E p \in Procs : FindAllQuery(p)
  \/ \E p \in Procs : FindAllCacheSet(p)
  \/ Tick

SpecStale == InitStale /\ [][NextStale]_vars

(***************************************************************************)
(* findAll alone, over a table that already holds rows                     *)
(***************************************************************************)
\* The i-th row of the populated table: two authors, and the first rows
\* share their publication dates in pairs.
ListRow(i) ==
  [id |-> i, authorId |-> IF i % 3 = 0 THEN "u2" ELSE "u1",
   title |-> T0, description |-> D0,
   publicationDate |-> IF i <= 4 THEN (i + 1) \div 2 ELSE i - 2]

\* Queries with page, limit and authorId supplied or left out.
PageQueries ==
  { pg \o lm \o au :
      pg \in { <<>> } \cup { << NumProp("page", n) >> : n \in 1..3 },
      lm \in { <<>> } \cup { << NumProp("limit", n) >> : n \in {1, 2, 10} },
      au \in { <<>>, << StrProp("authorId", "u1") >> } }

InitList ==
  /\ \E n \in 0..MaxRows :
       /\ store = [i \in 1..n |-> ListRow(i)]
       /\ nextId = n + 1
       /\ createdBy = [i \in 1..n |-> ListRow(i).authorId]
  /\ keyIn \in { << q >> : q \in PageQueries }
  /\ cache = [k \in CacheKeys \cup { ListKey(keyIn[1]) } |-> NoEntry]
  /\ pc = [p \in Procs |-> "idle"]
  /\ req = [p \in Procs |-> NoReq]
  /\ article = [p \in Procs |-> NoRow]
  /\ loaded = [p \in Procs |-> NoResult]
  /\ result = [p \in Procs |-> NoResult]
  /\ outcome = [p \in Procs |-> "none"]
  /\ trace = [p \in Procs |-> <<>>]
  /\ keyOut = <<>>
  /\ sinceWrite = Undefined
  /\ held = Undefined

NextList ==
  \/ \E p \in Procs : FindAllBegin(p, keyIn[1])
  \/ \E p \in Procs : FindAllCacheGet(p)
  \/ \E p \in Procs : FindAllQuery(p)
  \/ \E p \in Procs : FindAllCacheSet(p)
  \/ Tick

SpecList == InitList /\ [][NextList]_vars

(***************************************************************************)
(* findAll with filters: a table whose rows differ in author, date, title  *)
(* and description, and one query that supplies any of authorId, fromDate, *)
(* toDate and search.                                                      *)
(***************************************************************************)
FilterTable ==
  << [id |-> 1, authorId |-> "u1", title |-> << "a" >>,
      description |-> << "x" >>, publicationDate |-> 1],
     [id |-> 2, authorId |-> "u2", title |-> << "B" >>,
      description |-> << "y" >>, publicationDate |-> 2],
     [id |-> 3, authorId |-> "u1", title |-> << "a", "b" >>,
      description |-> << "x" >>, publicationDate |-> 3],
     [id |-> 4, authorId |-> "u1", title |-> << "a" >>,
      description |-> << "y", "_" >>, publicationDate |-> 2] >>

FilterQueries ==
  { au \o fd \o td \o se :
      au \in { <<>>, << StrProp("authorId", "u1") >> },
      fd \in { <<>>, << NumProp("fromDate", 2) >> },
      td \in { <<>>, << NumProp("toDate", 2) >> },
      se \in { <<>> } \cup { << TxtProp("search", t) >> :
                                t \in { << "b" >>, << "X" >>, << "_" >> } } }

InitFilter ==
  /\ \E n \in 0..Len(FilterTable) :
       /\ store = [i \in 1..n |-> FilterTable[i]]
       /\ nextId = n + 1
       /\ createdBy = [i \in 1..n |-> FilterTable[i].authorId]
  /\ keyIn \in { << q >> : q \in FilterQueries }
  /\ cache = [k \in CacheKeys \cup { ListKey(keyIn[1]) } |-> NoEntry]
  /\ pc = [p \in Procs |-> "idle"]
  /\ req = [p \in Procs |-> NoReq]
  /\ article = [p \in Procs |-> NoRow]
  /\ loaded = [p \in Procs |-> NoResult]
  /\ result = [p \in Procs |-> NoResult]
  /\ outcome = [p \in Procs |-> "none"]
  /\ trace = [p \in Procs |-> <<>>]
  /\ keyOut = <<>>
  /\ sinceWrite = Undefined
  /\ held = Undefined

SpecFilter == InitFilter /\ [][NextList]_vars

(***************************************************************************)
(* Derivation of the findAll cache key, on its own                         *)
(***************************************************************************)
InitKey ==
  /\ store = [id \in Ids |-> NoRow]
  /\ nextId = 1
  /\ cache = [k \in CacheKeys |-> NoEntry]
  /\ pc = [p \in Procs |-> "idle"]
  /\ req = [p \in Procs |-> NoReq]
  /\ article = [p \in Procs |-> NoRow]
  /\ loaded = [p \in Procs |-> NoResult]
  /\ result = [p \in Procs |-> NoResult]
  /\ outcome = [p \in Procs |-> "none"]
  /\ trace = [p \in Procs |-> <<>>]
  /\ keyIn \in KeyQueries \X KeyQueries
  /\ keyOut = <<>>
  /\ createdBy = [id \in Ids |-> ""]
  /\ sinceWrite = Undefined
  /\ held = Undefined

\* const cacheKey = `articles:${JSON.stringify(query)}` for both queries
DeriveKeys ==
  /\ keyOut = <<>>
  /\ keyOut' = << ListKey(keyIn[1]), ListKey(keyIn[2]) >>
  /\ UNCHANGED << store, nextId, cache, pc, req, article, loaded, result,
                  outcome, trace, keyIn, createdBy, sinceWrite, held >>

SpecKey == InitKey /\ [][DeriveKeys]_vars

(***************************************************************************)
(* Properties                                                              *)
(***************************************************************************)
Last(s) == s[Len(s)]
Events(p) == { trace[p][i].ev : i \in 1..Len(trace[p]) }
Supplied(dto, f) == f \in DOMAIN dto /\ dto[f] # Undefined
OwnerOf(id) == store[id].authorId

\* C1: once update(id, {title: X}) by the owner has returned successfully,
\* every get(id) that returns afterwards returns title X.
C1_GetAfterUpdateReturnsNewTitle ==
  [][ \A p, q \in Procs :
        ( /\ pc[p] = "done" /\ req[p].op = "update" /\ outcome[p] = "ok"
          /\ Supplied(req[p].dto, "title")
          /\ req[q].op = "get" /\ req[q].id = req[p].id
          /\ pc[q] # "done" /\ pc'[q] = "done" /\ outcome'[q] = "ok" )
        => result'[q].title = req[p].dto.title[1] ]_vars

\* C2: update (with a supplied field) and remove of an existing article by a
\* principal other than its author fail with Forbidden, whether findOne
\* resolved the article from the cache or from the table; nothing is written.
C2_NonOwnerForbidden ==
  /\ [][ \A p \in Procs :
           ( /\ req[p].op \in {"update", "remove"}
             /\ pc[p] \in {"cacheGet", "cacheSet"}
             /\ pc'[p] \notin {pc[p], "find"}
             /\ outcome'[p] # "CacheError"
             /\ store[req[p].id] # NoRow
             /\ OwnerOf(req[p].id) # req[p].userId )
           => /\ pc'[p] = "done"
              /\ outcome'[p] = "ForbiddenException"
              /\ store' = store ]_vars
  /\ [](\A p \in Procs :
          pc[p] \in {"save", "remove", "del"} => article[p].authorId = req[p].userId)

C2_Witness ==
  \E p, q \in Procs :
    /\ pc[p] = "done" /\ req[p].op = "update" /\ outcome[p] = "ForbiddenException"
    /\ "get-hit" \in Events(p)
    /\ pc[q] = "done" /\ req[q].op = "remove" /\ outcome[q] = "ForbiddenException"
    /\ "set" \in Events(q)
    /\ store[req[p].id] # NoRow /\ store[req[q].id] # NoRow

\* C3: a successful update leaves every updatable field it was not given
\* at the value the table held immediately before the update's write.
C3_UnsuppliedFieldsRetained ==
  [][ \A p \in Procs :
        ( /\ pc[p] = "save" /\ pc'[p] = "del"
          /\ store[req[p].id] # NoRow )
        => \A f \in UpdatableFields :
             ~Supplied(req[p].dto, f) => store'[req[p].id][f] = store[req[p].id][f] ]_vars

\* C4: update with no field set fails with BadRequest for every id and
\* principal, without any call to the cache or the repository.
C4_EmptyUpdateRejectedFirst ==
  /\ [](\A p \in Procs :
          (req[p].op = "update" /\ \A f \in UpdatableFields : ~Supplied(req[p].dto, f))
          => /\ pc[p] = "done"
             /\ outcome[p] = "BadRequestException"
             /\ trace[p] = <<>>)
  /\ [][ \A p \in Procs :
           ( /\ req'[p].op = "update"
             /\ \A f \in UpdatableFields : ~Supplied(req'[p].dto, f)
             /\ (req'[p] # req[p] \/ pc'[p] # pc[p]) )
           => store' = store /\ cache' = cache ]_vars

C4_Witness ==
  \E p, q \in Procs :
    /\ req[p].op = "update" /\ req[p].dto = [title |-> Undefined]
    /\ outcome[p] = "BadRequestException"
    /\ store[req[p].id] # NoRow /\ OwnerOf(req[p].id) = req[p].userId
    /\ req[q].op = "update" /\ req[q].dto = <<>>
    /\ outcome[q] = "BadRequestException"
    /\ store[req[q].id] # NoRow /\ OwnerOf(req[q].id) # req[q].userId

\* C5: two findAll requests with the same effective filters use the same
\* cache key, whatever the order of the supplied properties and whether a
\* default was supplied or omitted.
C5_SameFiltersSameKey ==
  (keyOut # <<>> /\ Destructure(keyIn[1]) = Destructure(keyIn[2]))
  => keyOut[1] = keyOut[2]

\* C6: when the cache holds an unexpired entry for the key and the cache
\* read returns it, findOne and findAll return exactly that value, with no
\* repository call and no cache write.
C6_HitBypassesStore ==
  [][ \A p \in Procs :
        ( /\ req[p].op \in {"get", "list"}
          /\ pc[p] \in {"cacheGet", "listGet"}
          /\ pc'[p] # pc[p]
          /\ outcome'[p] # "CacheError"
          /\ cache[req[p].key] # NoEntry
          /\ cache[req[p].key].ttl > 0 )
        => /\ pc'[p] = "done"
           /\ outcome'[p] = "ok"
           /\ result'[p] = cache[req[p].key].value
           /\ trace'[p] = << Ev("get-hit", req[p].key) >>
           /\ cache' = cache
           /\ store' = store ]_vars

C6_Witness ==
  \E p, q \in Procs :
    /\ pc[p] = "done" /\ req[p].op = "get" /\ outcome[p] = "ok"
    /\ trace[p] = << Ev("get-hit", req[p].key) >>
    /\ pc[q] = "done" /\ req[q].op = "list" /\ outcome[q] = "ok"
    /\ trace[q] = << Ev("get-hit", req[q].key) >>
    /\ result[q].total = 1

\* C7: on a cache miss for which the repository returns a value, findOne
\* and findAll write the cache exactly once, at the key they read, with the
\* loaded value and a TTL of 300000 ms, and return the loaded value.
C7_MissPopulatesOnce ==
  /\ [][ \A p \in Procs :
           ( /\ req[p].op = "get"
             /\ pc[p] = "find" /\ pc'[p] # pc[p]
             /\ store[req[p].id] # NoRow )
           => pc'[p] = "cacheSet" /\ loaded'[p] = store[req[p].id] ]_vars
  /\ [][ \A p \in Procs :
           ( /\ req[p].op = "list"
             /\ pc[p] = "listQuery" /\ pc'[p] # pc[p] )
           => pc'[p] = "listSet" /\ loaded'[p] \in QueryResults(store, req[p].query) ]_vars
  /\ [][ \A p \in Procs :
           ( /\ req[p].op \in {"get", "list"}
             /\ pc[p] \in {"cacheSet", "listSet"}
             /\ pc'[p] # pc[p]
             /\ outcome'[p] # "CacheError" )
           => /\ cache' = [cache EXCEPT ![req[p].key] =
                             [value |-> loaded[p], ttl |-> 300000]]
              /\ pc'[p] = "done"
              /\ outcome'[p] = "ok"
              /\ result'[p] = loaded[p] ]_vars
  /\ [](\A p \in Procs :
          ( /\ pc[p] = "done" /\ req[p].op \in {"get", "list"}
            /\ outcome[p] = "ok" /\ "get-miss" \in Events(p) )
          => /\ Len(trace[p]) = 3
             /\ trace[p][1] = Ev("get-miss", req[p].key)
             /\ trace[p][2].ev \in {"find", "query"}
             /\ trace[p][3] = [ev |-> "set", key |-> req[p].key,
                               value |-> result[p], ttl |-> 300000])

C7_Witness ==
  \E p, q \in Procs :
    /\ pc[p] = "done" /\ req[p].op = "get" /\ outcome[p] = "ok"
    /\ "get-miss" \in Events(p)
    /\ cache[req[p].key] = [value |-> result[p], ttl |-> 300000]
    /\ pc[q] = "done" /\ req[q].op = "list" /\ outcome[q] = "ok"
    /\ "get-miss" \in Events(q)
    /\ result[q].total = 1
    /\ cache[req[q].key] = [value |-> result[q], ttl |-> 300000]

\* C8: findOne of an id that is in neither the cache nor the table fails
\* with NotFound and writes nothing to the cache, so that a repeated
\* findOne queries the table again.
C8_NotFoundNotCached ==
  /\ [][ \A p \in Procs :
           ( /\ req[p].op = "get"
             /\ pc[p] = "find" /\ pc'[p] # pc[p]
             /\ store[req[p].id] = NoRow )
           => /\ pc'[p] = "done"
              /\ outcome'[p] = "NotFoundException"
              /\ cache' = cache ]_vars
  /\ [](\A p \in Procs :
          (pc[p] = "done" /\ req[p].op = "get" /\ outcome[p] = "NotFoundException")
          => trace[p] = << Ev("get-miss", req[p].key), RepoEv("find", req[p].id) >>)

C8_Witness ==
  \E p, q \in Procs :
    /\ p # q /\ req[p] = req[q]
    /\ pc[p] = "done" /\ req[p].op = "get" /\ outcome[p] = "NotFoundException"
    /\ pc[q] = "done" /\ outcome[q] = "NotFoundException"
    /\ RepoEv("find", req[q].id) \in { trace[q][i] : i \in 1..Len(trace[q]) }
    /\ cache[req[p].key] = NoEntry

\* C9: a cache error never fails a request.
C9_CacheErrorNeverFailsRequest ==
  \A p \in Procs : outcome[p] # "CacheError"

\* C10: every successful update and remove deletes the cache entry
\* article:{id} after its write to the table and before it returns.
C10_MutationInvalidates ==
  /\ [][ \A p \in Procs :
           ( /\ req[p].op \in {"update", "remove"}
             /\ pc[p] # "done" /\ pc'[p] = "done"
             /\ outcome'[p] = "ok" )
           => /\ pc[p] = "del"
              /\ cache'[ArticleKey(req[p].id)] = NoEntry ]_vars
  /\ [](\A p \in Procs :
          ( /\ pc[p] = "done" /\ req[p].op \in {"update", "remove"}
            /\ outcome[p] = "ok" )
          => /\ Len(trace[p]) >= 2
             /\ Last(trace[p]) = Ev("del", ArticleKey(req[p].id))
             /\ trace[p][Len(trace[p]) - 1] =
                  RepoEv(IF req[p].op = "update" THEN "save" ELSE "remove", req[p].id))

C10_Witness ==
  \E p, q \in Procs :
    /\ pc[p] = "done" /\ req[p].op = "update" /\ outcome[p] = "ok"
    /\ pc[q] = "done" /\ req[q].op = "remove" /\ outcome[q] = "ok"

\* C11: once remove(id) by the author has returned successfully, the table
\* holds no row with that id, whatever update requests run concurrently.
C11_RemovedStaysRemoved ==
  \A q \in Procs :
    ( /\ pc[q] = "done" /\ req[q].op = "remove" /\ outcome[q] = "ok"
      /\ req[q].userId = createdBy[req[q].id] )
    => store[req[q].id] = NoRow

\* C12: update and remove check existence before ownership.  A request that
\* misses the cache and finds no row ends with NotFound for every principal;
\* one that finds the row goes on to the ownership check.  Forbidden is only
\* ever raised on an article that was resolved, and NotFound only on a cache
\* miss followed by a table miss.
C12_ExistenceBeforeOwnership ==
  /\ [][ \A p \in Procs :
           ( /\ req[p].op \in {"update", "remove"}
             /\ pc[p] = "find" /\ pc'[p] # pc[p] )
           => IF store[req[p].id] = NoRow
              THEN pc'[p] = "done" /\ outcome'[p] = "NotFoundException"
              ELSE pc'[p] = "cacheSet" /\ outcome'[p] = "none" ]_vars
  /\ [][ \A p \in Procs :
           ( /\ req[p].op \in {"update", "remove"}
             /\ pc[p] # "done" /\ pc'[p] = "done"
             /\ outcome'[p] = "ForbiddenException" )
           => \/ pc[p] = "cacheGet" /\ cache[req[p].key] # NoEntry
                 /\ cache[req[p].key].value.authorId # req[p].userId
              \/ pc[p] = "cacheSet" /\ loaded[p] # NoResult
                 /\ loaded[p].authorId # req[p].userId ]_vars
  /\ [](\A p \in Procs :
          (pc[p] = "done" /\ req[p].op \in {"update", "remove"})
          => /\ outcome[p] = "NotFoundException"
                => trace[p] = << Ev("get-miss", req[p].key), RepoEv("find", req[p].id) >>
             /\ outcome[p] = "ForbiddenException"
                => Last(trace[p]).ev \in {"get-hit", "set"})

C12_Witness ==
  \E p, q \in Procs :
    /\ pc[p] = "done" /\ req[p].op = "update" /\ outcome[p] = "ForbiddenException"
    /\ req[p].userId # createdBy[req[p].id]
    /\ pc[q] = "done" /\ req[q].op = "remove" /\ outcome[q] = "NotFoundException"
    /\ req[q].userId = createdBy[req[q].id]
    /\ store[req[q].id] = NoRow /\ cache[req[q].key] = NoEntry

\* C13: every stored article's authorId is the principal whose create
\* inserted it: create takes it from the requester, and no update, by any
\* principal and with any body, changes it.
C13_AuthorIdFixedAtCreation ==
  /\ [](\A id \in Ids : store[id] # NoRow => store[id].authorId = createdBy[id])
  /\ [][ \A p \in Procs :
           (pc[p] = "createSave" /\ pc'[p] = "createFind")
           => store'[article'[p].id].authorId = req[p].userId ]_vars
  /\ [][ \A id \in Ids :
           (store[id] # NoRow /\ store'[id] # NoRow)
           => store'[id].authorId = store[id].authorId ]_vars

C13_Witness ==
  \E p, q \in Procs :
    /\ pc[p] = "done" /\ req[p].op = "update" /\ outcome[p] = "ok"
    /\ "get-hit" \in Events(p)
    /\ store[req[p].id] # NoRow /\ store[req[p].id].title = T1
    /\ store[req[p].id].authorId = req[p].userId
    /\ pc[q] = "done" /\ req[q].op = "update" /\ "authorId" \in DOMAIN req[q].dto
    /\ req[q].userId = createdBy[req[q].id]
    /\ outcome[q] = "BadRequestException"

\* The article carries the fields of the create input and the requester.
HasFieldsOf(a, dto, userId) ==
  /\ a.title = dto.title
  /\ a.description = dto.description
  /\ a.publicationDate = dto.publicationDate
  /\ a.authorId = userId

\* C14: create returns the article with the title, description and
\* publicationDate of its input and the requester as authorId, and a
\* get(id) that returns while the article is as create returned it succeeds
\* with that same article.
C14_GetAfterCreate ==
  /\ [][ \A p \in Procs :
           ( /\ pc[p] = "createFind" /\ pc'[p] = "done"
             /\ store[article[p].id] = article[p] )
           => /\ outcome'[p] = "ok"
              /\ result'[p] = store[article[p].id]
              /\ HasFieldsOf(result'[p], req[p].dto, req[p].userId) ]_vars
  /\ [][ \A p, q \in Procs :
           ( /\ pc[p] = "done" /\ req[p].op = "create" /\ outcome[p] = "ok"
             /\ HasFieldsOf(result[p], req[p].dto, req[p].userId)
             /\ req[q].op = "get" /\ req[q].id = result[p].id
             /\ store[req[q].id] = result[p]
             /\ pc[q] # "done" /\ pc'[q] = "done"
             /\ outcome'[q] # "CacheError" )
           => /\ outcome'[q] = "ok"
              /\ result'[q] = result[p] ]_vars

C14_Witness ==
  \E p, q \in Procs :
    /\ pc[p] = "done" /\ req[p].op = "create" /\ outcome[p] = "ok"
    /\ HasFieldsOf(result[p], req[p].dto, req[p].userId)
    /\ pc[q] = "done" /\ req[q].op = "get" /\ req[q].id = result[p].id
    /\ outcome[q] = "ok" /\ result[q] = result[p]
    /\ trace[q] = << Ev("get-miss", req[q].key), RepoEv("find", req[q].id),
                     [ev |-> "set", key |-> req[q].key, value |-> result[p], ttl |-> TTL] >>

\* C15: a list served on a cache miss over M matching rows has total = M,
\* totalPages = ceil(M / limit), page and limit as requested (1 and 10 when
\* left out), and data = the rows at offsets (page-1)*limit up to
\* min(page*limit, M) of the matching rows in publicationDate order.
C15_PageArithmetic ==
  [][ \A p \in Procs :
        (req[p].op = "list" /\ pc[p] = "listQuery" /\ pc'[p] # pc[p])
        => LET q == req[p].query
               page == IF QHas(q, "page") THEN QProp(q, "page").num[1] ELSE 1
               limit == IF QHas(q, "limit") THEN QProp(q, "limit").num[1] ELSE 10
               rows == { store[i] : i \in { j \in DOMAIN store :
                           /\ store[j] # NoRow
                           /\ QHas(q, "authorId")
                              => store[j].authorId = QProp(q, "authorId").str[1] } }
               M == Cardinality(rows)
               from == (page - 1) * limit
               upto == IF page * limit < M THEN page * limit ELSE M
               r == loaded'[p]
           IN /\ r.total = M
              /\ r.totalPages * limit >= M /\ (r.totalPages - 1) * limit < M
              /\ r.page = page /\ r.limit = limit
              /\ Len(r.data) = IF upto > from THEN upto - from ELSE 0
              /\ \E s \in OrderByDateDesc(rows) :
                    \A i \in 1..Len(r.data) : r.data[i] = s[from + i] ]_vars

C15_Witness ==
  \E p \in Procs :
    /\ pc[p] = "done" /\ req[p].op = "list" /\ outcome[p] = "ok"
    /\ req[p].query = << NumProp("page", 2), NumProp("limit", 10) >>
    /\ "get-miss" \in Events(p)
    /\ Len(result[p].data) = 10 /\ result[p].total = 25 /\ result[p].totalPages = 3
    /\ result[p].data[1].publicationDate = 13

\* C16: a create whose re-read finds no row fails with an internal error,
\* a signal other than the NotFound that findOne gives for a missing article.
C16_RereadFailureIsInternal ==
  \A p \in Procs :
    ( /\ pc[p] = "done" /\ req[p].op = "create"
      /\ Len(trace[p]) = 2 /\ trace[p][1].ev = "insert"
      /\ outcome[p] # "ok" )
    => outcome[p] # "NotFoundException"

\* C17: every successful create, update and remove has deleted from the
\* cache by the time it returns.
C17_EveryMutationDeletesFromCache ==
  \A p \in Procs :
    ( /\ pc[p] = "done" /\ req[p].op \in {"create", "update", "remove"}
      /\ outcome[p] = "ok" )
    => "del" \in Events(p)

\* The place of a call in the order resolve, mutate, invalidate.
StepRank(e) ==
  CASE e.ev \in {"get-hit", "get-miss", "get-error"} -> 1
    [] e.ev = "find" -> 2
    [] e.ev \in {"set", "set-error"} -> 3
    [] e.ev \in {"save", "remove"} -> 4
    [] e.ev \in {"del", "del-error"} -> 5

\* C18: within one update or remove the steps run in the order resolve,
\* authorize, mutate, invalidate: the table is written only after findOne
\* has returned and the requester was found to be the author, and the cache
\* entry is deleted only after the table write has been carried out.
C18_StepsInOrder ==
  /\ [](\A p \in Procs :
          req[p].op \in {"update", "remove"}
          => /\ \A i, j \in 1..Len(trace[p]) :
                  i < j => StepRank(trace[p][i]) < StepRank(trace[p][j])
             /\ \A i \in 1..Len(trace[p]) :
                  StepRank(trace[p][i]) = 4
                  => i > 1 /\ trace[p][i - 1].ev \in {"get-hit", "set"}
             /\ \A i \in 1..Len(trace[p]) :
                  StepRank(trace[p][i]) = 5
                  => i > 1 /\ StepRank(trace[p][i - 1]) = 4)
  /\ [][ \A p \in Procs :
           ( /\ req[p].op \in {"update", "remove"}
             /\ pc'[p] # pc[p] /\ pc'[p] \in {"save", "remove"} )
           => /\ pc[p] \in {"cacheGet", "cacheSet"}
              /\ article'[p].authorId = req[p].userId
              /\ store' = store ]_vars
  /\ [][ \A p \in Procs :
           ( /\ req[p].op \in {"update", "remove"}
             /\ pc'[p] # pc[p] /\ pc'[p] = "del" )
           => /\ pc[p] = IF req[p].op = "update" THEN "save" ELSE "remove"
              /\ cache' = cache
              /\ IF req[p].op = "remove" THEN store'[req[p].id] = NoRow
                 ELSE /\ store'[req[p].id] # NoRow
                      /\ \A f \in UpdatableFields :
                           Supplied(req[p].dto, f)
                           => store'[req[p].id][f] = req[p].dto[f][1] ]_vars
  /\ [][ \A p \in Procs :
           (pc'[p] # pc[p] /\ pc[p] # "del" /\ req[p].op \in {"update", "remove"})
           => (cache[ArticleKey(req[p].id)] # NoEntry
               => cache'[ArticleKey(req[p].id)] # NoEntry) ]_vars

C18_Witness ==
  \E p, q \in Procs :
    /\ pc[p] = "done" /\ req[p].op = "update" /\ outcome[p] = "ok"
    /\ trace[p][1] = Ev("get-miss", req[p].key)
    /\ Len(trace[p]) = 5
    /\ trace[p][4] = RepoEv("save", req[p].id)
    /\ trace[p][5] = Ev("del", req[p].key)
    /\ pc[q] = "done" /\ req[q].op = "remove" /\ outcome[q] = "ok"
    /\ trace[q] = << Ev("get-hit", req[q].key), RepoEv("remove", req[q].id),
                     Ev("del", req[q].key) >>

\* C19: a cached list is served for at most the TTL, and a list served from
\* the cache reflects every mutation that completed more than the TTL
\* earlier: when the table was last written, and the last mutation
\* returned, more than TTL ago, the list returned is a result of the query
\* on the table as it is.
C19_ListStalenessBounded ==
  /\ [](\A k \in DOMAIN cache :
          cache[k] # NoEntry => cache[k].ttl > 0 /\ cache[k].ttl <= TTL)
  /\ [][ \A p \in Procs :
           ( /\ req[p].op = "list"
             /\ pc[p] = "listGet" /\ pc'[p] = "done" /\ outcome'[p] = "ok"
             /\ sinceWrite # Undefined /\ sinceWrite[1] > TTL
             /\ \A q \in Procs : pc[q] \notin {"del", "createFind"} )
           => result'[p] \in QueryResults(store, req[p].query) ]_vars

\* C20: create, update and remove leave every cached list (keys
\* articles:{...}) as it is: a list entry changes only when a list request
\* that missed writes it, or when time passes and it ages or expires.
C20_MutationsKeepListEntries ==
  /\ [][ \A p \in Procs :
           (req[p].op \in {"create", "update", "remove"} /\ pc'[p] # pc[p])
           => \A q \in ListQueries : cache'[ListKey(q)] = cache[ListKey(q)] ]_vars
  /\ [][ \A q \in ListQueries :
           cache'[ListKey(q)] # cache[ListKey(q)]
           => \/ \E p \in Procs :
                   /\ req[p].op = "list" /\ req[p].key = ListKey(q)
                   /\ pc[p] = "listSet" /\ pc'[p] = "done"
                   /\ "get-miss" \in Events(p)
                   /\ cache'[ListKey(q)] = [value |-> loaded[p], ttl |-> TTL]
              \/ /\ pc' = pc
                 /\ cache[ListKey(q)] # NoEntry
                 /\ \/ cache'[ListKey(q)] = NoEntry
                    \/ /\ cache'[ListKey(q)].value = cache[ListKey(q)].value
                       /\ cache'[ListKey(q)].ttl < cache[ListKey(q)].ttl ]_vars

C20_Witness ==
  \E p, q \in Procs, lq \in ListQueries :
    /\ pc[p] = "done" /\ req[p].op = "update" /\ outcome[p] = "ok"
    /\ Supplied(req[p].dto, "title")
    /\ pc[q] = "done" /\ req[q].op = "remove" /\ outcome[q] = "ok"
    /\ store[req[q].id] = NoRow
    /\ cache[ListKey(lq)] # NoEntry
    /\ cache[ListKey(lq)].value.total = 1
    /\ cache[ListKey(lq)].value.data[1].title = T0

\* C21: two reads that both missed the same key each query the table and
\* each write the cache.  Every such write replaces the entry by the value
\* the writer loaded, so that when both have finished the entry is the value
\* of the later write; each request returns the value it loaded itself.
C21_LastWriterWins ==
  /\ [][ \A p, q \in Procs :
           ( /\ p # q /\ req[p].op \in {"get", "list"} /\ req[q] = req[p]
             /\ pc[q] = "done" /\ outcome[q] = "ok" /\ "get-miss" \in Events(q)
             /\ "get-miss" \in Events(p)
             /\ pc[p] \in {"cacheSet", "listSet"} /\ pc'[p] = "done"
             /\ outcome'[p] = "ok" )
           => /\ cache'[req[p].key] = [value |-> loaded[p], ttl |-> TTL]
              /\ result'[p] = loaded[p]
              /\ result'[q] = result[q]
              /\ Len(trace'[p]) = 3 /\ Len(trace[q]) = 3
              /\ trace'[p][2].ev \in {"find", "query"}
              /\ trace[q][2].ev \in {"find", "query"} ]_vars
  /\ [](\A p, q \in Procs :
          ( /\ p # q /\ req[p].op \in {"get", "list"} /\ req[q] = req[p]
            /\ pc[p] = "done" /\ outcome[p] = "ok" /\ "get-miss" \in Events(p)
            /\ pc[q] = "done" /\ outcome[q] = "ok" /\ "get-miss" \in Events(q)
            /\ cache[req[p].key] # NoEntry )
          => cache[req[p].key].value \in {result[p], result[q]})

C21_Witness ==
  \E p, q \in Procs :
    /\ p # q /\ req[p].op = "get" /\ req[q] = req[p]
    /\ pc[p] = "done" /\ outcome[p] = "ok" /\ "get-miss" \in Events(p)
    /\ pc[q] = "done" /\ outcome[q] = "ok" /\ "get-miss" \in Events(q)
    /\ result[p] # result[q]
    /\ store[req[p].id] = result[q]
    /\ cache[req[p].key] = [value |-> result[p], ttl |-> TTL]

\* C22: on a cache miss the list request selects exactly the stored articles
\* that satisfy every supplied filter: authorId equal to the author,
\* publicationDate at or after fromDate, at or before toDate (both bounds
\* included), search contained in title or description without regard to
\* case; the rows come ordered by publicationDate, latest first.
C22_ListSelectsFiltered ==
  [][ \A p \in Procs :
        (pc[p] = "listQuery" /\ pc'[p] = "listSet") =>
          LET f == Destructure(req[p].query)
              r == loaded'[p]
              Contains(text, s) ==
                \E i \in 0..(Len(text) - Len(s)) :
                  \A j \in 1..Len(s) : Lower(text[i + j]) = Lower(s[j])
              Selected ==
                { row \in { store[i] : i \in DOMAIN store } :
                    /\ row # NoRow
                    /\ f.authorId # Undefined => row.authorId = f.authorId[1]
                    /\ f.fromDate # Undefined => row.publicationDate >= f.fromDate[1]
                    /\ f.toDate # Undefined => row.publicationDate <= f.toDate[1]
                    /\ f.search # Undefined =>
                         \/ Contains(row.title, f.search[1])
                         \/ Contains(row.description, f.search[1]) }
          IN /\ r.total = Cardinality(Selected)
             /\ { r.data[i] : i \in 1..Len(r.data) } = Selected
             /\ Len(r.data) = Cardinality(Selected)
             /\ \A i, j \in 1..Len(r.data) :
                  i < j => r.data[i].publicationDate >= r.data[j].publicationDate
    ]_vars

\* C23: an update or a remove that fails with BadRequest, NotFound or
\* Forbidden leaves the table as it was: the request made no table write,
\* and none of its steps changed a row.
C23_FailedMutationKeepsStore ==
  /\ [](\A p \in Procs :
          ( /\ req[p].op \in {"update", "remove"} /\ pc[p] = "done"
            /\ outcome[p] \in {"BadRequestException", "NotFoundException",
                                "ForbiddenException"} )
          => Events(p) \cap {"save", "remove", "insert"} = {})
  /\ [][ \A p \in Procs :
           ( /\ pc'[p] # pc[p]
             /\ req'[p].op \in {"update", "remove"}
             /\ \/ pc[p] \notin {"save", "remove"}
                \/ outcome'[p] \in {"BadRequestException", "NotFoundException",
                                     "ForbiddenException"} )
           => store' = store ]_vars

C23_Witness ==
  \E p, q \in Procs :
    /\ p # q
    /\ req[p].op = "remove" /\ pc[p] = "done" /\ outcome[p] = "ForbiddenException"
    /\ req[q].op = "update" /\ pc[q] = "done" /\ outcome[q] = "BadRequestException"
    /\ store[req[p].id] # NoRow

\* C24: once remove(id) by the author has returned successfully, a get(id)
\* that makes its calls afterwards fails with NotFound whatever other gets
\* were in flight: its cache read is not a hit and its table read finds no
\* row.
C24_GetAfterRemoveNotFound ==
  [][ \A p, q \in Procs :
        ( /\ p # q
          /\ req[q].op = "remove" /\ pc[q] = "done" /\ outcome[q] = "ok"
          /\ req[q].userId = createdBy[req[q].id]
          /\ req[p].op = "get" /\ req[p].id = req[q].id
          /\ pc[p] = "cacheGet" /\ trace[p] = <<>>
          /\ pc'[p] # pc[p] )
        => /\ "get-hit" \notin { trace'[p][i].ev : i \in 1..Len(trace'[p]) }
           /\ store[req[p].id] = NoRow ]_vars

C26_DifferentFiltersDifferentKeys ==
  (keyOut # <<>> /\ Destructure(keyIn[1]) # Destructure(keyIn[2]))
  => keyOut[1] # keyOut[2]

C26_Witness ==
  /\ keyOut # <<>>
  /\ Destructure(keyIn[1]).page = Destructure(keyIn[2]).page
  /\ Destructure(keyIn[1]).limit = Destructure(keyIn[2]).limit
  /\ Destructure(keyIn[1]).search # Destructure(keyIn[2]).search
  /\ QHas(keyIn[1], "page") /\ QHas(keyIn[2], "page")
  /\ keyOut[1] # keyOut[2]

\* C27: a cache entry at article:{id} always holds an article whose id is
\* id and whose fields are those of a row the table holds or has held for
\* id; the cache never holds a value that was never in the table.
C27_CachedWasStored ==
  \A id \in Ids :
    cache[ArticleKey(id)] # NoEntry =>
      /\ cache[ArticleKey(id)].value \in held[id]
      /\ cache[ArticleKey(id)].value.id = id

C27_Witness ==
  \E id \in Ids :
    /\ cache[ArticleKey(id)] # NoEntry
    /\ cache[ArticleKey(id)].value \in held[id]
    /\ store[id] # NoRow
    /\ cache[ArticleKey(id)].value # store[id]
    /\ Cardinality(held[id]) >= 3

====
